---- MODULE Spec2Model ----
(***************************************************************************)
(* SO101Controller (src/so101_keyboard_control.py): the connect /          *)
(* disconnect lifecycle, the register writes and reads it issues on the    *)
(* servo bus, the unit conversion and the cached motor positions;          *)
(* KeyboardController, whose key callbacks run on the listener's thread,   *)
(* and main(), which runs both.                                            *)
(*                                                                         *)
(* Every scservo_sdk call is one step.  Its outcome is chosen by the       *)
(* environment: "ok" (COMM_SUCCESS / True), "fail" (a result other than    *)
(* COMM_SUCCESS, or False) and, where the code tells the two apart,        *)
(* "raise" (the SDK call throws).  Where the code handles a thrown         *)
(* exception exactly as a failed result (a raise inside connect()'s try,   *)
(* the try/except of _write_byte and _write_word) "fail" stands for both.  *)
(*                                                                         *)
(* Positions are Python floats.  They are kept here as exact fixed-point   *)
(* numbers: the integer p stands for p / 4095 degrees (or percent), so     *)
(* that raw * 360 / 4095 - 180 is exact.                                   *)
(***************************************************************************)
EXTENDS Integers, Sequences, FiniteSets, TLC

VARIABLES
    port_handler,   \* self.port_handler is not None
    portOpen,       \* the serial port of self.port_handler is open
    connected,      \* self.connected
    position,       \* MOTORS[..].position, by bus id, fixed point
    torque,         \* servo register 40 (torque enable), by bus id
    present,        \* servo register 56 (present position, raw), by bus id
    pc,             \* where the running call stands; "idle" between calls
    op,             \* the API call that is running or ran last
    i,              \* index of the joint a sweep is at
    motor_name,     \* move_motor's motor_name argument
    req,            \* move_motor's position argument (fixed point)
    log,            \* transport calls issued by the call `op`, in order, with outcomes
    result,         \* how the call `op` ended: "none", "returned", "raised"
    positions,      \* the mapping get_positions() builds and returns
    faults,         \* transport failures injected so far
    ncalls,         \* API calls made so far
    conv,           \* the unit converter applied to one input, see Convert
    running,        \* KeyboardController.running
    listener,       \* KeyboardController.listener: "none", "started", "stopped"
    key,            \* the key _on_press is handling or handled last
    kpc,            \* where the running _on_press stands; "idle" between key events
    ki,             \* index of the joint the callback's sweep is at
    kname,          \* motor_name of the callback's move_motor
    kreq,           \* position of the callback's move_motor (fixed point)
    klog,           \* transport calls issued by the callback for `key`, in order
    kcalls,         \* the robot methods the callbacks called so far, in order
    nkeys,          \* key events handled so far
    mainpc,         \* where main() stands; "off" when main() is not what runs
    inflight        \* the threads that are inside a packet exchange

\* what the methods of SO101Controller read and write
ctl == << port_handler, portOpen, connected, position, torque, present, pc, op,
          i, motor_name, req, log, result, positions, faults, ncalls >>

\* what KeyboardController and its callbacks keep
kbd == << running, listener, key, kpc, ki, kname, kreq, klog, kcalls, nkeys >>

vars == << port_handler, portOpen, connected, position, torque, present, pc, op,
           i, motor_name, req, log, result, positions, faults, ncalls, conv,
           running, listener, key, kpc, ki, kname, kreq, klog, kcalls, nkeys,
           mainpc, inflight >>

----------------------------------------------------------------------------
(* Bounds of the model *)

MaxCalls == 3
MaxFaults == 2
MaxKeys == 2

----------------------------------------------------------------------------
(* Program constants *)

ADDR_TORQUE_ENABLE == 40
ADDR_GOAL_POSITION == 42
ADDR_PRESENT_POSITION == 56
ADDR_OPERATING_MODE == 33
POSITION == 0
RawMax == 4095
NumMotors == 6

\* d whole degrees (or percent) in the fixed-point representation
Fix(d) == d * RawMax

MOTORS ==
    << [name |-> "shoulder_pan",  id |-> 1, min_pos |-> Fix(-180), max_pos |-> Fix(180)],
       [name |-> "shoulder_lift", id |-> 2, min_pos |-> Fix(-180), max_pos |-> Fix(180)],
       [name |-> "elbow_flex",    id |-> 3, min_pos |-> Fix(-180), max_pos |-> Fix(180)],
       [name |-> "wrist_flex",    id |-> 4, min_pos |-> Fix(-180), max_pos |-> Fix(180)],
       [name |-> "wrist_roll",    id |-> 5, min_pos |-> Fix(-180), max_pos |-> Fix(180)],
       [name |-> "gripper",       id |-> 6, min_pos |-> Fix(0),    max_pos |-> Fix(100)] >>

Joints == 1..NumMotors
MotorNames == { MOTORS[j].name : j \in Joints }

\* faulty variant of IdOf: every name gives the first joint
IdOfFirst(name) == MOTORS[1].id

\* motor = self.MOTORS[motor_name]
IdOf(name) == CHOOSE j \in Joints : MOTORS[j].name = name

----------------------------------------------------------------------------
(* Inputs the environment draws from *)

\* raw present-position values a servo may hold at power-on
InitRaw == {2048, 4095}
\* motor_name arguments of move_motor
MoveNames == {"shoulder_pan", "gripper", "nonexistent_joint"}
\* position arguments of move_motor, whole degrees / percent
MoveTargets == {-200, 5, 150}

----------------------------------------------------------------------------
(* Unit conversion *)

Max(a, b) == IF a >= b THEN a ELSE b

\* faulty variant of Min: the upper bound left out
MinSecond(a, b) == b

Min(a, b) == IF a <= b THEN a ELSE b

\* faulty variant of Trunc: round(a / b), to nearest and half to even
RoundNearest(a, b) ==
    LET m == IF a >= 0 THEN a ELSE -a
        q == m \div b
        r == m % b
        n == IF 2 * r < b THEN q
             ELSE IF 2 * r > b THEN q + 1
             ELSE IF q % 2 = 0 THEN q ELSE q + 1
    IN  IF a >= 0 THEN n ELSE -n

\* Python int(a / b) for b > 0: truncation toward zero
Trunc(a, b) == IF a >= 0 THEN a \div b ELSE -((-a) \div b)

\* faulty variant of _degrees_to_motor_units: the 180 degree shift left out
DegreesToUnitsNoShift(degrees) ==
    LET motor_units == Trunc(degrees, 360)
    IN  Max(0, Min(RawMax, motor_units))

_degrees_to_motor_units(degrees) ==
    LET motor_units == Trunc(degrees + Fix(180), 360)
    IN  Max(0, Min(RawMax, motor_units))

_motor_units_to_degrees(motor_units) == motor_units * 360 - Fix(180)

\* faulty variant of Clamp: the lower limit left out
ClampUpperOnly(j, p) == Min(MOTORS[j].max_pos, p)

\* move_motor's clamp to the motor limits
Clamp(j, p) == Max(MOTORS[j].min_pos, Min(MOTORS[j].max_pos, p))

\* faulty variant of MotorUnits: the gripper's stroke counted from the other end
MotorUnitsGripperReversed(j, p) ==
    IF MOTORS[j].name = "gripper" THEN RawMax - Trunc(p, 100)
    ELSE _degrees_to_motor_units(p)

\* move_motor's conversion of the clamped position to motor units
MotorUnits(j, p) ==
    IF MOTORS[j].name = "gripper" THEN Trunc(p, 100)
    ELSE _degrees_to_motor_units(p)

----------------------------------------------------------------------------
(* Transport outcomes *)

\* one entry of the log: the SDK call, its arguments and its outcome
Call(kind, id, addr, value, o) ==
    [call |-> kind, id |-> id, addr |-> addr, value |-> value, res |-> o]

\* a packet exchange can succeed only on an open port
CanSucceed == port_handler /\ portOpen

\* the outcomes the environment may give a packet exchange now
Allowed(o) ==
    IF o = "ok" THEN CanSucceed
    ELSE (CanSucceed => faults < MaxFaults)

Charge(o) == IF o # "ok" /\ CanSucceed THEN faults + 1 ELSE faults

\* openPort / setBaudRate do not need an open port to succeed
AllowedOpen(o) == o = "ok" \/ faults < MaxFaults
ChargeOpen(o) == IF o # "ok" THEN faults + 1 ELSE faults

\* a read with no packet handler is an AttributeError, never a result code
AllowedRead(o) ==
    /\ Allowed(o)
    /\ (~port_handler => o = "raise")

----------------------------------------------------------------------------
(* Initial state: a constructed SO101Controller, servos just powered *)

Constructed ==
    /\ port_handler = FALSE
    /\ portOpen = FALSE
    /\ connected = FALSE
    /\ position = [j \in Joints |-> 0]
    /\ torque = [j \in Joints |-> 0]
    /\ \E r \in InitRaw : present = [j \in Joints |-> r]
    /\ pc = "idle"
    /\ op = "none"
    /\ i = 0
    /\ motor_name = "none"
    /\ req = 0
    /\ log = << >>
    /\ result = "none"
    /\ positions = << >>
    /\ faults = 0
    /\ ncalls = 0

\* the converter is not under test
ConvOff == [stage |-> "off"]

\* KeyboardController.__init__; no callback has run
KeyboardConstructed ==
    /\ running = FALSE
    /\ listener = "none"
    /\ key = "none"
    /\ kpc = "idle"
    /\ ki = 0
    /\ kname = "none"
    /\ kreq = 0
    /\ klog = << >>
    /\ kcalls = << >>
    /\ nkeys = 0
    /\ inflight = {}

Init ==
    /\ Constructed
    /\ conv = ConvOff
    /\ KeyboardConstructed
    /\ mainpc = "off"

\* a call ends: control is back at the caller
Return(how) ==
    /\ pc' = "idle"
    /\ result' = how
    /\ i' = 0

\* a call starts
Enter(name) ==
    /\ pc = "idle"
    /\ ncalls < MaxCalls
    /\ ncalls' = ncalls + 1
    /\ op' = name
    /\ log' = << >>

\* a call without arguments and without a returned value: the argument and
\* return slots of the previous call are dead
NoArgs ==
    /\ motor_name' = "none"
    /\ req' = 0
    /\ positions' = << >>

----------------------------------------------------------------------------
(* connect() *)

\* faulty variant of DisconnectGuard: `and self.connected` left out
DisconnectGuardHandlerOnly == port_handler

\* disconnect()'s condition for doing anything at all
DisconnectGuard == port_handler /\ connected

\* connect(): a new PortHandler and PacketHandler replace the old ones
Connect ==
    /\ Enter("connect")
    /\ port_handler' = TRUE
    /\ portOpen' = FALSE
    /\ pc' = "openPort"
    /\ result' = "none"
    /\ NoArgs
    /\ UNCHANGED << connected, position, torque, present, i, faults >>

\* port_handler.openPort(); False raises
ConnectOpenPort ==
    /\ pc = "openPort"
    /\ \E o \in {"ok", "fail"} :
        /\ AllowedOpen(o)
        /\ faults' = ChargeOpen(o)
        /\ log' = Append(log, Call("openPort", 0, 0, 0, o))
        /\ IF o = "ok"
           THEN portOpen' = TRUE /\ pc' = "setBaudRate"
           ELSE portOpen' = portOpen /\ pc' = "except"
    /\ UNCHANGED << port_handler, connected, position, torque, present, op, i,
                    motor_name, req, result, positions, ncalls >>

\* port_handler.setBaudRate(baudrate); False raises
ConnectSetBaudRate ==
    /\ pc = "setBaudRate"
    /\ \E o \in {"ok", "fail"} :
        /\ AllowedOpen(o)
        /\ faults' = ChargeOpen(o)
        /\ log' = Append(log, Call("setBaudRate", 0, 0, 0, o))
        /\ IF o = "ok"
           THEN pc' = "ping" /\ i' = 1
           ELSE pc' = "except" /\ i' = i
    /\ UNCHANGED << port_handler, portOpen, connected, position, torque, present,
                    op, motor_name, req, result, positions, ncalls >>

\* faulty variant of PingStops: the sweep goes on after a failed ping
PingNeverStops(o) == FALSE

\* _ping_motors(): whether the outcome of a ping raises and ends the sweep
PingStops(o) == o # "ok"

\* _ping_motors(): one ping; a result other than COMM_SUCCESS raises
PingMotor ==
    /\ pc = "ping"
    /\ \E o \in {"ok", "fail"} :
        /\ Allowed(o)
        /\ faults' = Charge(o)
        /\ log' = Append(log, Call("ping", MOTORS[i].id, 0, 0, o))
        /\ IF ~PingStops(o)
           THEN IF i < NumMotors
                THEN pc' = "ping" /\ i' = i + 1
                ELSE pc' = "write_mode" /\ i' = 1
           ELSE pc' = "except" /\ i' = i
    /\ UNCHANGED << port_handler, portOpen, connected, position, torque, present,
                    op, motor_name, req, result, positions, ncalls >>

\* _write_byte() inside _configure_motors(): whether a failed write raises
ConfigWriteRaises(o) == FALSE

\* _configure_motors(): _write_byte(id, ADDR_OPERATING_MODE, POSITION)
ConfigureMode ==
    /\ pc = "write_mode"
    /\ \E o \in {"ok", "fail"} :
        /\ Allowed(o)
        /\ faults' = Charge(o)
        /\ log' = Append(log, Call("write1", MOTORS[i].id, ADDR_OPERATING_MODE, POSITION, o))
        /\ pc' = IF ConfigWriteRaises(o) THEN "except" ELSE "write_torque"
    /\ UNCHANGED << port_handler, portOpen, connected, position, torque, present,
                    op, i, motor_name, req, result, positions, ncalls >>

\* _configure_motors(): _write_byte(id, ADDR_TORQUE_ENABLE, 1)
ConfigureTorque ==
    /\ pc = "write_torque"
    /\ \E o \in {"ok", "fail"} :
        /\ Allowed(o)
        /\ faults' = Charge(o)
        /\ log' = Append(log, Call("write1", MOTORS[i].id, ADDR_TORQUE_ENABLE, 1, o))
        /\ torque' = IF o = "ok" THEN [torque EXCEPT ![MOTORS[i].id] = 1] ELSE torque
        /\ pc' = IF ConfigWriteRaises(o) THEN "except" ELSE "read_position"
    /\ UNCHANGED << port_handler, portOpen, connected, position, present, op, i,
                    motor_name, req, result, positions, ncalls >>

\* _read_position(): the value returned when read2ByteTxRx does not throw
_read_position(id, o) ==
    IF o = "ok" THEN _motor_units_to_degrees(present[id]) ELSE 0

\* _configure_motors(): motor.position = _read_position(id); a throwing read
\* leaves _configure_motors
ConfigureRead ==
    /\ pc = "read_position"
    /\ \E o \in {"ok", "fail", "raise"} :
        /\ AllowedRead(o)
        /\ faults' = Charge(o)
        /\ log' = Append(log, Call("read2", MOTORS[i].id, ADDR_PRESENT_POSITION, 0, o))
        /\ IF o = "raise"
           THEN pc' = "except" /\ i' = i /\ position' = position
           ELSE /\ position' = [position EXCEPT ![MOTORS[i].id] = _read_position(MOTORS[i].id, o)]
                /\ IF i < NumMotors
                   THEN pc' = "write_mode" /\ i' = i + 1
                   ELSE pc' = "mark_connected" /\ i' = i
    /\ UNCHANGED << port_handler, portOpen, connected, torque, present, op,
                    motor_name, req, result, positions, ncalls >>

\* self.connected = True, and connect() returns
ConnectMark ==
    /\ pc = "mark_connected"
    /\ connected' = TRUE
    /\ Return("returned")
    /\ UNCHANGED << port_handler, portOpen, position, torque, present, op,
                    motor_name, req, log, positions, faults, ncalls >>

\* except Exception: self.disconnect(); raise
ConnectExcept ==
    /\ pc = "except"
    /\ IF DisconnectGuard
       THEN pc' = "disable_torque" /\ i' = 1 /\ result' = result
       ELSE Return("raised")
    /\ UNCHANGED << port_handler, portOpen, connected, position, torque, present,
                    op, motor_name, req, log, positions, faults, ncalls >>

----------------------------------------------------------------------------
(* disconnect() and disable_torque() *)

\* disconnect(): nothing happens unless there is a handler and connected
Disconnect ==
    /\ Enter("disconnect")
    /\ IF DisconnectGuard
       THEN pc' = "disable_torque" /\ i' = 1 /\ result' = "none"
       ELSE Return("returned")
    /\ NoArgs
    /\ UNCHANGED << port_handler, portOpen, connected, position, torque, present,
                    faults >>

\* faulty variant of DisableAborts: the failure of one write escapes the loop
DisableAbortsOnFailure(o) == o # "ok"

\* disable_torque(): whether a failed write ends the sweep over the motors
DisableAborts(o) == FALSE

\* faulty variant of SweepEnd: every sweep goes on to close the port
SweepEndAlwaysCloses(name) == "closePort"

\* where control goes after disable_torque()'s loop: back into disconnect(),
\* which closes the port, or back to the caller of disable_torque() or
\* emergency_stop()
SweepEnd(name) ==
    IF name \in {"connect", "disconnect"} THEN "closePort" ELSE "idle"

\* disable_torque(): nothing is written unless connected
DisableTorqueGuard == connected

\* disable_torque(): _write_byte(id, ADDR_TORQUE_ENABLE, 0) for one motor
DisableTorque ==
    /\ pc = "disable_torque"
    /\ \E o \in {"ok", "fail"} :
        /\ Allowed(o)
        /\ faults' = Charge(o)
        /\ log' = Append(log, Call("write1", MOTORS[i].id, ADDR_TORQUE_ENABLE, 0, o))
        /\ torque' = IF o = "ok" THEN [torque EXCEPT ![MOTORS[i].id] = 0] ELSE torque
        /\ IF i < NumMotors /\ ~DisableAborts(o)
           THEN pc' = "disable_torque" /\ i' = i + 1 /\ result' = result
           ELSE IF SweepEnd(op) = "closePort"
                THEN pc' = "closePort" /\ i' = i /\ result' = result
                ELSE Return("returned")
    /\ UNCHANGED << port_handler, portOpen, connected, position, present, op,
                    motor_name, req, positions, ncalls >>

\* disconnect(): port_handler.closePort() (an exception is logged), then
\* self.connected = False; inside connect()'s handler the exception is re-raised
ClosePort ==
    /\ pc = "closePort"
    /\ \E o \in {"ok", "fail"} :
        /\ AllowedOpen(o)
        /\ faults' = ChargeOpen(o)
        /\ log' = Append(log, Call("closePort", 0, 0, 0, o))
        /\ portOpen' = IF o = "ok" THEN FALSE ELSE portOpen
    /\ connected' = FALSE
    /\ Return(IF op = "connect" THEN "raised" ELSE "returned")
    /\ UNCHANGED << port_handler, position, torque, present, op, motor_name, req,
                    positions, ncalls >>

\* disable_torque() called by the caller
CallDisableTorque ==
    /\ Enter("disable_torque")
    /\ IF DisableTorqueGuard
       THEN pc' = "disable_torque" /\ i' = 1 /\ result' = "none"
       ELSE Return("returned")
    /\ NoArgs
    /\ UNCHANGED << port_handler, portOpen, connected, position, torque, present,
                    faults >>

\* emergency_stop(): self.disable_torque()
emergency_stop ==
    /\ Enter("emergency_stop")
    /\ IF DisableTorqueGuard
       THEN pc' = "disable_torque" /\ i' = 1 /\ result' = "none"
       ELSE Return("returned")
    /\ NoArgs
    /\ UNCHANGED << port_handler, portOpen, connected, position, torque, present,
                    faults >>

\* enable_torque(): no check of self.connected
CallEnableTorque ==
    /\ Enter("enable_torque")
    /\ pc' = "enable_torque"
    /\ i' = 1
    /\ result' = "none"
    /\ NoArgs
    /\ UNCHANGED << port_handler, portOpen, connected, position, torque, present,
                    faults >>

\* enable_torque(): _write_byte(id, ADDR_TORQUE_ENABLE, 1) for one motor; with
\* no packet handler the AttributeError is swallowed by _write_byte
EnableTorque ==
    /\ pc = "enable_torque"
    /\ \E o \in {"ok", "fail"} :
        /\ Allowed(o)
        /\ faults' = Charge(o)
        /\ log' = Append(log, Call("write1", MOTORS[i].id, ADDR_TORQUE_ENABLE, 1, o))
        /\ torque' = IF o = "ok" THEN [torque EXCEPT ![MOTORS[i].id] = 1] ELSE torque
        /\ IF i < NumMotors
           THEN pc' = "enable_torque" /\ i' = i + 1 /\ result' = result
           ELSE Return("returned")
    /\ UNCHANGED << port_handler, portOpen, connected, position, present, op,
                    motor_name, req, positions, ncalls >>

----------------------------------------------------------------------------
(* move_motor() *)

\* faulty variant of MoveGuard: the `if not self.connected` return left out
MoveGuardNameOnly(name) == name \in MotorNames

\* move_motor(): the two early returns
MoveGuard(name) == connected /\ name \in MotorNames

\* move_motor(motor_name, position): the checks
MoveMotor ==
    /\ Enter("move_motor")
    /\ \E name \in MoveNames, v \in MoveTargets :
        /\ motor_name' = name
        /\ req' = Fix(v)
        /\ IF MoveGuard(name)
           THEN pc' = "write_goal" /\ result' = "none" /\ i' = i
           ELSE Return("returned")
    /\ positions' = << >>
    /\ UNCHANGED << port_handler, portOpen, connected, position, torque, present,
                    faults >>

\* move_motor(): clamp, convert, _write_word(id, ADDR_GOAL_POSITION, units),
\* motor.position = position.  A servo that takes the write moves to the goal.
MoveWrite ==
    /\ pc = "write_goal"
    /\ LET j == IdOf(motor_name)
           p == Clamp(j, req)
           motor_units == MotorUnits(j, p)
       IN  /\ \E o \in {"ok", "fail"} :
               /\ Allowed(o)
               /\ faults' = Charge(o)
               /\ present' = IF o = "ok" THEN [present EXCEPT ![MOTORS[j].id] = motor_units]
                             ELSE present
               /\ log' = Append(log, Call("write2", MOTORS[j].id, ADDR_GOAL_POSITION, motor_units, o))
           /\ position' = [position EXCEPT ![j] = p]
    /\ Return("returned")
    /\ UNCHANGED << port_handler, portOpen, connected, torque, op, motor_name, req,
                    positions, ncalls >>

----------------------------------------------------------------------------
(* get_positions() *)

\* faulty variant of StorePosition: a joint whose read failed is left out
StorePositionSkipFailed(ps, j, v, o) ==
    IF o = "ok" THEN Append(ps, << MOTORS[j].name, v >>) ELSE ps

\* get_positions(): positions[name] = value; iteration order is insertion order
StorePosition(ps, j, v, o) == Append(ps, << MOTORS[j].name, v >>)

GetPositions ==
    /\ Enter("get_positions")
    /\ positions' = << >>
    /\ pc' = "read_present"
    /\ i' = 1
    /\ result' = "none"
    /\ motor_name' = "none"
    /\ req' = 0
    /\ UNCHANGED << port_handler, portOpen, connected, position, torque, present,
                    faults >>

\* get_positions(): positions[name] = _read_position(motor.id) for one motor;
\* a throwing read leaves get_positions with the exception
GetPositionsRead ==
    /\ pc = "read_present"
    /\ \E o \in {"ok", "fail", "raise"} :
        /\ AllowedRead(o)
        /\ faults' = Charge(o)
        /\ log' = Append(log, Call("read2", MOTORS[i].id, ADDR_PRESENT_POSITION, 0, o))
        /\ IF o = "raise"
           THEN positions' = positions /\ Return("raised")
           ELSE /\ positions' = StorePosition(positions, i, _read_position(MOTORS[i].id, o), o)
                /\ IF i < NumMotors
                   THEN pc' = "read_present" /\ i' = i + 1 /\ result' = result
                   ELSE Return("returned")
    /\ UNCHANGED << port_handler, portOpen, connected, position, torque, present,
                    op, motor_name, req, ncalls >>

----------------------------------------------------------------------------
(* KeyboardController *)

step_size == 5
gripper_step == 10

\* the keys a key-down may carry: the termination key, the emergency-stop
\* key, two movement keys and a key without a binding
Keys == {"esc", "space", "right", "x", "c"}

\* key_actions, for the movement keys of Keys
key_actions ==
    [k \in {"right", "x"} |->
        IF k = "right" THEN [motor_name |-> "shoulder_pan", delta |-> Fix(step_size)]
        ELSE [motor_name |-> "gripper", delta |-> Fix(gripper_step)]]

\* one entry of kcalls: the robot method a callback called, with its arguments
RobotCall(method, name, p) ==
    [method |-> method, motor_name |-> name, position |-> p]

\* start(): running = True and a new listener is started; the caller starts
\* the listener once
start ==
    /\ listener = "none"
    /\ running' = TRUE
    /\ listener' = "started"
    /\ UNCHANGED << ctl, key, kpc, ki, kname, kreq, klog, kcalls, nkeys >>

\* stop(): running = False; if self.listener: self.listener.stop().  A
\* callback that is running is not waited for.
stop ==
    /\ running' = FALSE
    /\ listener' = IF listener = "started" THEN "stopped" ELSE listener
    /\ UNCHANGED << ctl, key, kpc, ki, kname, kreq, klog, kcalls, nkeys >>

\* faulty variant of OnPressGuard: the `if not self.running` return left out
OnPressGuardNone == TRUE

\* _on_press(): key events are handled only while running
OnPressGuard == running

\* faulty variant of KeyTarget: the delta alone, the cached position left out
KeyTargetDeltaOnly(j, delta) == delta

\* _on_press(): new_pos = current_pos + delta
KeyTarget(j, delta) == position[j] + delta

\* _on_press(key), up to the first transport call of the robot method it
\* calls: the checks of _on_press and those of move_motor / disable_torque
_on_press ==
    /\ kpc = "idle"
    /\ nkeys < MaxKeys
    /\ nkeys' = nkeys + 1
    /\ klog' = << >>
    /\ \E k \in Keys :
        /\ key' = k
        /\ IF ~OnPressGuard
           THEN /\ UNCHANGED << running, listener, kcalls >>
                /\ kpc' = "idle" /\ ki' = 0 /\ kname' = "none" /\ kreq' = 0
           ELSE IF k = "esc"
           THEN /\ running' = FALSE
                /\ listener' = IF listener = "started" THEN "stopped" ELSE listener
                /\ kcalls' = kcalls
                /\ kpc' = "idle" /\ ki' = 0 /\ kname' = "none" /\ kreq' = 0
           ELSE IF k = "space"
           THEN /\ UNCHANGED << running, listener >>
                /\ kcalls' = Append(kcalls, RobotCall("emergency_stop", "none", 0))
                /\ kname' = "none" /\ kreq' = 0
                /\ IF DisableTorqueGuard
                   THEN kpc' = "k_disable_torque" /\ ki' = 1
                   ELSE kpc' = "idle" /\ ki' = 0
           ELSE IF k \in DOMAIN key_actions
           THEN LET action == key_actions[k]
                    new_pos == KeyTarget(IdOf(action.motor_name), action.delta)
                IN  /\ UNCHANGED << running, listener >>
                    /\ kcalls' = Append(kcalls, RobotCall("move_motor", action.motor_name, new_pos))
                    /\ kname' = action.motor_name /\ kreq' = new_pos /\ ki' = 0
                    /\ kpc' = IF MoveGuard(action.motor_name) THEN "k_write_goal" ELSE "idle"
           ELSE /\ UNCHANGED << running, listener, kcalls >>
                /\ kpc' = "idle" /\ ki' = 0 /\ kname' = "none" /\ kreq' = 0
    /\ UNCHANGED ctl

\* faulty variant of KeyMoveWrite: the move switches the joint's torque on
KeyMoveWriteEnablesTorque ==
    /\ kpc = "k_write_goal"
    /\ LET j == IdOf(kname)
           p == Clamp(j, kreq)
           motor_units == MotorUnits(j, p)
       IN  /\ \E o \in {"ok", "fail"} :
               /\ Allowed(o)
               /\ faults' = Charge(o)
               /\ present' = IF o = "ok" THEN [present EXCEPT ![MOTORS[j].id] = motor_units]
                             ELSE present
               /\ klog' = Append(klog, Call("write2", MOTORS[j].id, ADDR_GOAL_POSITION, motor_units, o))
           /\ position' = [position EXCEPT ![j] = p]
           /\ torque' = [torque EXCEPT ![MOTORS[j].id] = 1]
    /\ kpc' = "idle"
    /\ UNCHANGED << port_handler, portOpen, connected, pc, op, i, motor_name,
                    req, log, result, positions, ncalls, running, listener, key,
                    ki, kname, kreq, kcalls, nkeys >>

\* the callback's move_motor(): clamp, convert, _write_word, motor.position
KeyMoveWrite ==
    /\ kpc = "k_write_goal"
    /\ LET j == IdOf(kname)
           p == Clamp(j, kreq)
           motor_units == MotorUnits(j, p)
       IN  /\ \E o \in {"ok", "fail"} :
               /\ Allowed(o)
               /\ faults' = Charge(o)
               /\ present' = IF o = "ok" THEN [present EXCEPT ![MOTORS[j].id] = motor_units]
                             ELSE present
               /\ klog' = Append(klog, Call("write2", MOTORS[j].id, ADDR_GOAL_POSITION, motor_units, o))
           /\ position' = [position EXCEPT ![j] = p]
    /\ kpc' = "idle"
    /\ UNCHANGED << port_handler, portOpen, connected, torque, pc, op, i, motor_name,
                    req, log, result, positions, ncalls, running, listener, key,
                    ki, kname, kreq, kcalls, nkeys >>

\* the callback's emergency_stop(): disable_torque()'s write for one motor
KeyDisableTorque ==
    /\ kpc = "k_disable_torque"
    /\ \E o \in {"ok", "fail"} :
        /\ Allowed(o)
        /\ faults' = Charge(o)
        /\ klog' = Append(klog, Call("write1", MOTORS[ki].id, ADDR_TORQUE_ENABLE, 0, o))
        /\ torque' = IF o = "ok" THEN [torque EXCEPT ![MOTORS[ki].id] = 0] ELSE torque
        /\ IF ki < NumMotors /\ ~DisableAborts(o)
           THEN kpc' = "k_disable_torque" /\ ki' = ki + 1
           ELSE kpc' = "idle" /\ ki' = 0
    /\ UNCHANGED << port_handler, portOpen, connected, position, present, pc, op, i,
                    motor_name, req, log, result, positions, ncalls, running,
                    listener, key, kname, kreq, kcalls, nkeys >>

----------------------------------------------------------------------------

\* the variables no method of SO101Controller touches
outside == << conv, kbd, mainpc, inflight >>

Next ==
    \/ Connect /\ UNCHANGED outside
    \/ ConnectOpenPort /\ UNCHANGED outside
    \/ ConnectSetBaudRate /\ UNCHANGED outside
    \/ PingMotor /\ UNCHANGED outside
    \/ ConfigureMode /\ UNCHANGED outside
    \/ ConfigureTorque /\ UNCHANGED outside
    \/ ConfigureRead /\ UNCHANGED outside
    \/ ConnectMark /\ UNCHANGED outside
    \/ ConnectExcept /\ UNCHANGED outside
    \/ Disconnect /\ UNCHANGED outside
    \/ DisableTorque /\ UNCHANGED outside
    \/ ClosePort /\ UNCHANGED outside
    \/ MoveMotor /\ UNCHANGED outside
    \/ MoveWrite /\ UNCHANGED outside
    \/ GetPositions /\ UNCHANGED outside
    \/ GetPositionsRead /\ UNCHANGED outside

Spec == Init /\ [][Next]_vars

----------------------------------------------------------------------------
(* The controller and the keyboard handler driven by one caller: every     *)
(* method of SO101Controller, start() and stop(), and key-downs handed to  *)
(* _on_press, one call at a time.                                          *)

\* the caller makes MaxCalls calls in all, key-downs included, and the bus
\* fails less than MaxFaults times
Budget == ncalls' + nkeys' <= MaxCalls /\ faults' < MaxFaults

\* a step of a controller method while no key callback is running
ApiStep == kpc = "idle" /\ UNCHANGED outside /\ Budget

\* a step of KeyboardController while no controller method is running
KeyStep == pc = "idle" /\ UNCHANGED << conv, mainpc, inflight >> /\ Budget

NextKeys ==
    \/ Connect /\ ApiStep
    \/ ConnectOpenPort /\ ApiStep
    \/ ConnectSetBaudRate /\ ApiStep
    \/ PingMotor /\ ApiStep
    \/ ConfigureMode /\ ApiStep
    \/ ConfigureTorque /\ ApiStep
    \/ ConfigureRead /\ ApiStep
    \/ ConnectMark /\ ApiStep
    \/ ConnectExcept /\ ApiStep
    \/ Disconnect /\ ApiStep
    \/ DisableTorque /\ ApiStep
    \/ ClosePort /\ ApiStep
    \/ CallDisableTorque /\ ApiStep
    \/ emergency_stop /\ ApiStep
    \/ CallEnableTorque /\ ApiStep
    \/ EnableTorque /\ ApiStep
    \/ MoveMotor /\ ApiStep
    \/ MoveWrite /\ ApiStep
    \/ GetPositions /\ ApiStep
    \/ GetPositionsRead /\ ApiStep
    \/ start /\ kpc = "idle" /\ KeyStep
    \/ stop /\ kpc = "idle" /\ KeyStep
    \/ _on_press /\ KeyStep
    \/ KeyMoveWrite /\ KeyStep
    \/ KeyDisableTorque /\ KeyStep

SpecKeys == Init /\ [][NextKeys]_vars

----------------------------------------------------------------------------
(* main(): the main thread connects, starts the listener, waits while      *)
(* running, and in its finally block stops the listener and disconnects;   *)
(* the listener's thread runs _on_press for each key-down, one at a time.  *)
(* No lock is taken anywhere.  A packet exchange (ping, read, write) takes *)
(* time: the thread enters it in one step and gets its outcome in a later  *)
(* one.                                                                    *)

\* where a thread stands when its next step is a packet exchange
MainExchangePcs == {"ping", "write_mode", "write_torque", "read_position", "disable_torque"}
KeyExchangePcs == {"k_write_goal", "k_disable_torque"}

InitMain ==
    /\ Constructed
    /\ conv = ConvOff
    /\ KeyboardConstructed
    /\ mainpc = "connect"

\* the main thread sends the packet of its next exchange
BeginMain ==
    /\ pc \in MainExchangePcs
    /\ "main" \notin inflight
    /\ inflight' = inflight \cup {"main"}
    /\ UNCHANGED << ctl, conv, kbd, mainpc >>

\* the listener's thread sends the packet of its next exchange
BeginKey ==
    /\ kpc \in KeyExchangePcs
    /\ "listener" \notin inflight
    /\ inflight' = inflight \cup {"listener"}
    /\ UNCHANGED << ctl, conv, kbd, mainpc >>

\* the main thread's exchange ends with the step it is conjoined to
EndMain ==
    /\ "main" \in inflight
    /\ inflight' = inflight \ {"main"}
    /\ UNCHANGED << conv, kbd, mainpc >>

\* the listener's exchange ends with the step it is conjoined to
EndKey ==
    /\ "listener" \in inflight
    /\ inflight' = inflight \ {"listener"}
    /\ UNCHANGED << conv, mainpc >>

\* a step of the main thread inside a controller method, without an exchange
MainStep == UNCHANGED << conv, kbd, mainpc, inflight >>

\* robot.connect()
main_connect ==
    /\ mainpc = "connect"
    /\ Connect
    /\ mainpc' = "start"
    /\ UNCHANGED << conv, kbd, inflight >>

\* connect() returned: keyboard_controller.start(), then the main loop
main_start ==
    /\ mainpc = "start"
    /\ pc = "idle"
    /\ result = "returned"
    /\ start
    /\ mainpc' = "loop"
    /\ UNCHANGED << conv, inflight >>

\* connect() raised: except Exception, then finally with keyboard_controller
\* still None
main_except ==
    /\ mainpc = "start"
    /\ pc = "idle"
    /\ result = "raised"
    /\ mainpc' = "disconnect"
    /\ UNCHANGED << ctl, conv, kbd, inflight >>

\* faulty variant of LoopCondition: while True
LoopConditionAlways == TRUE

\* main()'s loop condition: while keyboard_controller.running
LoopCondition == running

\* while keyboard_controller.running: the loop ends once running is False
main_loop_exit ==
    /\ mainpc = "loop"
    /\ ~LoopCondition
    /\ mainpc' = "stop"
    /\ UNCHANGED << ctl, conv, kbd, inflight >>

\* except KeyboardInterrupt: Ctrl-C while the main thread sleeps in the loop
main_KeyboardInterrupt ==
    /\ mainpc = "loop"
    /\ mainpc' = "stop"
    /\ UNCHANGED << ctl, conv, kbd, inflight >>

\* finally: keyboard_controller.stop()
main_stop ==
    /\ mainpc = "stop"
    /\ stop
    /\ mainpc' = "disconnect"
    /\ UNCHANGED << conv, inflight >>

\* finally: robot.disconnect()
main_disconnect ==
    /\ mainpc = "disconnect"
    /\ Disconnect
    /\ mainpc' = "ended"
    /\ UNCHANGED << conv, kbd, inflight >>

NextMain ==
    \/ main_connect
    \/ ConnectOpenPort /\ MainStep
    \/ ConnectSetBaudRate /\ MainStep
    \/ BeginMain
    \/ PingMotor /\ EndMain
    \/ ConfigureMode /\ EndMain
    \/ ConfigureTorque /\ EndMain
    \/ ConfigureRead /\ EndMain
    \/ ConnectMark /\ MainStep
    \/ ConnectExcept /\ MainStep
    \/ main_start
    \/ main_except
    \/ main_loop_exit
    \/ main_KeyboardInterrupt
    \/ main_stop
    \/ main_disconnect
    \/ DisableTorque /\ EndMain
    \/ ClosePort /\ MainStep
    \/ _on_press /\ listener = "started" /\ UNCHANGED << conv, mainpc, inflight >>
    \/ BeginKey
    \/ KeyMoveWrite /\ EndKey
    \/ KeyDisableTorque /\ EndKey

SpecMain == InitMain /\ [][NextMain]_vars

\* the steps main() takes by itself; Ctrl-C is not one of them
MainProgram ==
    \/ main_connect
    \/ ConnectOpenPort /\ MainStep
    \/ ConnectSetBaudRate /\ MainStep
    \/ BeginMain
    \/ PingMotor /\ EndMain
    \/ ConfigureMode /\ EndMain
    \/ ConfigureTorque /\ EndMain
    \/ ConfigureRead /\ EndMain
    \/ ConnectMark /\ MainStep
    \/ ConnectExcept /\ MainStep
    \/ main_start
    \/ main_except
    \/ main_loop_exit
    \/ main_stop
    \/ main_disconnect
    \/ DisableTorque /\ EndMain
    \/ ClosePort /\ MainStep

\* the main thread is scheduled fairly and every SDK call returns (the
\* SDK's packet timeout)
SpecMainFair == InitMain /\ [][NextMain]_vars /\ WF_vars(MainProgram)

----------------------------------------------------------------------------
(* The unit converter on its own: move_motor's clamp and conversion, and    *)
(* the conversion back that _read_position applies, on inputs taken on     *)
(* both sides of every raw step.                                           *)

\* distance of an input above a raw step, in 1/4095 of a raw unit's worth:
\* on the step, just above, around the middle, just below the next
ConvOffsets == {0, 1, 179, 180, 181, 359}
\* how far the second input of a pair lies above the first
ConvGaps == {0, 1, 50, 100}
\* requests beyond every joint limit, whole degrees / percent
ConvFar == {-1000, -200, -181, 181, 200, 1000}

\* degrees inputs: every raw step of [-180, 180] with every offset
DegreeInputs ==
    { r * 360 + f - Fix(180) : r \in 0..RawMax, f \in ConvOffsets }
        \cup { Fix(d) : d \in ConvFar }

\* percent inputs: every raw step of [0, 100] with some offsets
PercentInputs ==
    { r * 100 + f : r \in 0..RawMax, f \in {0, 50, 99} }
        \cup { Fix(d) : d \in ConvFar }

InitConv ==
    /\ Constructed
    /\ KeyboardConstructed
    /\ mainpc = "off"
    /\ \/ \E p \in DegreeInputs :
             conv = [stage |-> "in", joint |-> 1, p1 |-> p, p2 |-> p]
       \/ \E p \in PercentInputs, g \in ConvGaps :
             conv = [stage |-> "in", joint |-> 6, p1 |-> p, p2 |-> p + g]

\* move_motor's clamp and conversion of p1 and of p2 for the joint, the bare
\* degree converter on p1, and the conversion back of what it gave
Convert ==
    /\ conv.stage = "in"
    /\ LET j == conv.joint
       IN  conv' = [stage |-> "out", joint |-> j, p1 |-> conv.p1, p2 |-> conv.p2,
                    clamped |-> Clamp(j, conv.p1),
                    units1 |-> MotorUnits(j, Clamp(j, conv.p1)),
                    units2 |-> MotorUnits(j, Clamp(j, conv.p2)),
                    raw |-> _degrees_to_motor_units(conv.p1),
                    back |-> _motor_units_to_degrees(_degrees_to_motor_units(conv.p1))]
    /\ UNCHANGED << ctl, kbd, mainpc, inflight >>

NextConv == Convert

SpecConv == InitConv /\ [][NextConv]_vars

----------------------------------------------------------------------------
(* Vocabulary of the claims *)

\* the call `name` has ended and control is back at the caller
Ended(name) == pc = "idle" /\ op = name

\* log entry e is the SDK call `kind` on bus id `id` at `addr` with `value`
Is(e, kind, id, addr, value) ==
    e.call = kind /\ e.id = id /\ e.addr = addr /\ e.value = value

\* a torque-disable write was attempted on joint j during the call
DisableAttempted(j) ==
    \E k \in 1..Len(log) : Is(log[k], "write1", j, ADDR_TORQUE_ENABLE, 0)

\* this step is the caller entering the call `name`
Entering(name) == pc = "idle" /\ ncalls' = ncalls + 1 /\ op' = name

----------------------------------------------------------------------------
(* C1..C4: connect() *)

\* C1: when a ping does not succeed during connect() (port opened, baud set),
\* connect() ends with the failure raised to the caller, the serial port
\* closed and the controller not connected.
C1_PingFailureClosesPort ==
    (Ended("connect") /\ \E k \in 1..Len(log) : log[k].call = "ping" /\ log[k].res # "ok")
        => (result = "raised" /\ ~portOpen /\ ~connected)

\* C2: when connect() fails at any step after the port was opened, a
\* torque-disable write is attempted on every joint and the port is closed
\* before connect() returns; no joint is left torque-enabled behind an open
\* port without a disable attempt.
C2_FailedConnectCleansUp ==
    (Ended("connect") /\ result = "raised"
        /\ \E k \in 1..Len(log) : log[k].call = "openPort" /\ log[k].res = "ok")
        => /\ \A j \in Joints : DisableAttempted(j)
           /\ ~portOpen
           /\ \A j \in Joints : (torque[j] = 1 /\ portOpen /\ ~connected) => DisableAttempted(j)

\* C3: when an operating-mode write or a torque-enable write of connect()
\* fails at the transport, connect() raises and the controller is not marked
\* connected.
C3_ConfigWriteFailureFailsConnect ==
    (Ended("connect")
        /\ \E k \in 1..Len(log) :
              /\ log[k].call = "write1"
              /\ log[k].addr = ADDR_OPERATING_MODE
                    \/ (log[k].addr = ADDR_TORQUE_ENABLE /\ log[k].value = 1)
              /\ log[k].res # "ok")
        => (result = "raised" /\ ~connected)

\* C4: whenever connect() returns successfully the controller is connected
\* and the torque-enable register of every joint holds 1.
C4_ConnectedMeansTorqueOn ==
    (Ended("connect") /\ result = "returned")
        => (connected /\ \A j \in Joints : torque[j] = 1)

----------------------------------------------------------------------------
(* C5, C6: disconnect() *)

\* what one step of a disconnect() on a connected controller may do
C5_DisconnectStep ==
    /\ (Entering("disconnect") /\ connected)
          => (pc' = "disable_torque" /\ i' = 1 /\ log' = << >>)
    /\ (op = "disconnect" /\ pc = "disable_torque")
          => /\ Len(log) = i - 1
             /\ Len(log') = i
             /\ Is(log'[i], "write1", i, ADDR_TORQUE_ENABLE, 0)
             /\ SubSeq(log', 1, i - 1) = log
             /\ pc' = (IF i < 6 THEN "disable_torque" ELSE "closePort")
             /\ (i < 6 => i' = i + 1)
             /\ portOpen' = portOpen
             /\ connected' = connected
    /\ (op = "disconnect" /\ pc = "closePort")
          => /\ Len(log) = 6
             /\ Len(log') = 7
             /\ log'[7].call = "closePort"
             /\ Ended("disconnect")'
             /\ result' = "returned"
             /\ ~connected'

\* C5: disconnect() called while connected attempts a torque-disable write on
\* each of the six joints in turn, whatever the outcome of each write, closes
\* the port only after the sixth, and ends not connected.
C5_DisconnectDisablesAllThenCloses == [][C5_DisconnectStep]_vars

\* a disconnect() whose second torque-disable write failed and whose later
\* ones went through
C5_Witness ==
    /\ Ended("disconnect")
    /\ Len(log) = 7
    /\ log[2].res = "fail"
    /\ log[6].res = "ok"
    /\ torque[2] = 1
    /\ ~connected

\* what a disconnect() on a controller that is not connected may do
C6_DisconnectStep ==
    /\ (Entering("disconnect") /\ ~connected)
          => /\ Ended("disconnect")'
             /\ result' = "returned"
             /\ log' = << >>
             /\ UNCHANGED << port_handler, portOpen, connected, position, torque, present >>
    /\ Ended("disconnect")' => ~connected'

\* C6: disconnect() on a controller that is not connected raises nothing,
\* issues no transport call and changes nothing; every disconnect() ends not
\* connected, so a second disconnect() is this no-op.
C6_DisconnectIdempotent == [][C6_DisconnectStep]_vars

\* disconnect() after a connect() that failed and left the port open
C6_Witness ==
    /\ Ended("disconnect")
    /\ log = << >>
    /\ port_handler
    /\ portOpen
    /\ ~connected

----------------------------------------------------------------------------
(* C7, C8: move_motor() *)

\* what a move_motor() that fails its checks may do
C7_MoveStep ==
    (Entering("move_motor") /\ (~connected \/ motor_name' \notin MotorNames))
        => /\ Ended("move_motor")'
           /\ result' = "returned"
           /\ log' = << >>
           /\ UNCHANGED << position, connected, port_handler, portOpen, torque, present >>

\* C7: move_motor(name, v) on a controller that is not connected, or with a
\* name that is none of the six joints, returns without raising, without a
\* transport call and without changing any cached position, the connection
\* state or a servo.
C7_MoveNoOp == [][C7_MoveStep]_vars

\* both cases of the no-op were exercised: an unknown name on a connected
\* controller
C7_Witness ==
    /\ Ended("move_motor")
    /\ connected
    /\ motor_name = "nonexistent_joint"
    /\ log = << >>

\* C8: after move_motor(name, v) on a connected controller and a known joint,
\* the joint's cached position is v clamped to [0,100] for the gripper and to
\* [-180,180] for every other joint, whether or not the goal write succeeded.
C8_MoveCachesClamped ==
    (Ended("move_motor") /\ connected /\ motor_name \in MotorNames)
        => LET lo == IF motor_name = "gripper" THEN 0 ELSE -180 * 4095
               hi == IF motor_name = "gripper" THEN 100 * 4095 ELSE 180 * 4095
               p  == position[IdOf(motor_name)]
           IN  /\ Len(log) = 1
               /\ log[1].call = "write2"
               /\ p = (IF req < lo THEN lo ELSE IF req > hi THEN hi ELSE req)
               /\ lo <= p /\ p <= hi

\* move_motor("shoulder_pan", -200) cached -180 although the goal write failed
C8_Witness ==
    /\ Ended("move_motor")
    /\ connected
    /\ motor_name = "shoulder_pan"
    /\ req = -200 * 4095
    /\ position[1] = -180 * 4095
    /\ log[1].res = "fail"

----------------------------------------------------------------------------
(* C9, C10: get_positions() *)

C10_GetPositionsUpdatesCache ==
    (Ended("get_positions") /\ connected /\ result = "returned")
        => \A k \in Joints : position[k] = positions[k][2]

----------------------------------------------------------------------------
(* C11: read back after a move *)

\* C11: with a servo whose present position is the goal computed from the
\* position a move cached (the clamped request), a get_positions() that read
\* the joint reports a value within one raw unit of that position in the
\* joint's own unit: 360/4095 degrees for a rotary joint, 100/4095 percent for
\* the gripper.
C11_ReadBackWithinOneRawUnit ==
    (Ended("get_positions") /\ connected /\ result = "returned")
        => \A j \in Joints :
              LET gripper == MOTORS[j].name = "gripper"
                  lo   == IF gripper THEN 0 ELSE -180 * 4095
                  hi   == IF gripper THEN 100 * 4095 ELSE 180 * 4095
                  unit == IF gripper THEN 100 ELSE 360
                  goal == IF gripper THEN position[j] \div 100
                          ELSE (position[j] + 180 * 4095) \div 360
                  got  == positions[j][2]
              IN  (/\ log[j].res = "ok"
                   /\ lo <= position[j] /\ position[j] <= hi
                   /\ present[j] = goal)
                      => (got - position[j] <= unit /\ position[j] - got <= unit)

----------------------------------------------------------------------------
(* C12: emergency_stop() *)

\* what a step of emergency_stop() may do, as C12 states it
C12_EmergencyStopStep ==
    /\ (Entering("emergency_stop") \/ (op = "emergency_stop" /\ pc # "idle"))
          => UNCHANGED << portOpen, connected, position >>
    /\ Ended("emergency_stop")'
          => /\ result' = "returned"
             /\ \A j \in Joints :
                   \E k \in 1..Len(log') : Is(log'[k], "write1", j, ADDR_TORQUE_ENABLE, 0)

\* C12: emergency_stop() called in any state attempts a torque-disable write
\* on every one of the six joints and returns; no step of it closes the
\* port, changes the connection state or changes a cached position.
C12_EmergencyStopDisablesAll == [][C12_EmergencyStopStep]_vars

----------------------------------------------------------------------------
(* C13: who changes the connection state *)

\* a step that changes self.connected is a step of connect() or disconnect()
\* and of no key callback
C13_ConnectionStep ==
    connected' # connected
        => /\ pc # "idle"
           /\ op \in {"connect", "disconnect"}
           /\ kpc = "idle"
           /\ nkeys' = nkeys

\* C13: the controller is not connected at construction, and only connect()
\* and disconnect() change the connection state: no step of move_motor,
\* get_positions, enable_torque, disable_torque, emergency_stop or of a key
\* callback changes it, whatever the outcome of the transport calls.
C13_OnlyConnectAndDisconnect == ~connected /\ [][C13_ConnectionStep]_vars

\* the emergency-stop key was handled on a connected controller, one of its
\* six writes failed, and the controller is still connected
C13_Witness ==
    /\ kpc = "idle"
    /\ key = "space"
    /\ Len(klog) = 6
    /\ klog[3].res = "fail"
    /\ connected
    /\ portOpen

----------------------------------------------------------------------------
(* C14, C15: key events *)

\* this step is _on_press taking up a key-down of key k
KeyDown(k) == kpc = "idle" /\ nkeys' = nkeys + 1 /\ key' = k

\* what the handling of a movement key may do
C14_KeyStep ==
    /\ \A k \in {"right", "x"} :
          (KeyDown(k) /\ running)
              => LET name == IF k = "right" THEN "shoulder_pan" ELSE "gripper"
                     j == IF k = "right" THEN 1 ELSE 6
                     delta == IF k = "right" THEN 5 * 4095 ELSE 10 * 4095
                 IN  kcalls' = Append(kcalls, [method |-> "move_motor", motor_name |-> name,
                                               position |-> position[j] + delta])
    /\ kpc # "idle" => kcalls' = kcalls
    /\ kpc = "k_write_goal"
          => LET j == IF kname = "gripper" THEN 6 ELSE 1
                 lo == IF kname = "gripper" THEN 0 ELSE -180 * 4095
                 hi == IF kname = "gripper" THEN 100 * 4095 ELSE 180 * 4095
             IN  /\ kname \in {"shoulder_pan", "gripper"}
                 /\ position'[j] = (IF kreq < lo THEN lo ELSE IF kreq > hi THEN hi ELSE kreq)
                 /\ kpc' = "idle"

\* C14: while running, each key-down of a movement key bound to (joint,
\* delta) calls move_motor exactly once, with the joint's cached position
\* plus delta; the move leaves the target clamped to the joint limits in the
\* cache, so the next press starts from there and presses accumulate.
C14_PressesAccumulate == [][C14_KeyStep]_vars

\* two presses of the increase-shoulder_pan key from cached position 0
\* called move_motor with 5 and then with 10
C14_Witness ==
    /\ kpc = "idle"
    /\ connected
    /\ kcalls = << [method |-> "move_motor", motor_name |-> "shoulder_pan", position |-> 5 * 4095],
                   [method |-> "move_motor", motor_name |-> "shoulder_pan", position |-> 10 * 4095] >>
    /\ position[1] = 10 * 4095

\* what the handling of the termination key and of the emergency-stop key
\* may do, and what a key-down does once the running flag is false
C15_KeyStep ==
    /\ (KeyDown("esc") /\ running)
          => (~running' /\ listener' = "stopped" /\ kcalls' = kcalls /\ kpc' = "idle")
    /\ (~running /\ listener = "stopped") => ~running'
    /\ \A k \in Keys :
          (KeyDown(k) /\ ~running)
              => (kcalls' = kcalls /\ kpc' = "idle" /\ klog' = << >> /\ ~running')
    /\ (KeyDown("space") /\ running)
          => /\ running'
             /\ kcalls' = Append(kcalls, [method |-> "emergency_stop", motor_name |-> "none",
                                           position |-> 0])
    /\ kpc # "idle" => running' = running

\* C15: the termination key sets running to false and stops the listener,
\* and from then on no key-down leads to a move_motor or emergency_stop call;
\* the emergency-stop key calls emergency_stop() and leaves running true, so
\* that later key-downs are still handled.
C15_TerminationAndEmergencyKeys == [][C15_KeyStep]_vars

\* after the emergency-stop key, with its six writes done, a movement key was
\* handled
C15_Witness ==
    /\ kpc = "idle"
    /\ running
    /\ connected
    /\ Len(kcalls) = 2
    /\ kcalls[1].method = "emergency_stop"
    /\ kcalls[2].method = "move_motor"
    /\ Len(klog) = 1
    /\ klog[1].call = "write2"

----------------------------------------------------------------------------
(* C16, C17: the two threads of main() *)

\* C16: at most one packet exchange is in flight on the serial transport at
\* any time: in no reachable state are the main thread and the listener's
\* thread both inside a ping, read or write.
C16_OneExchangeInFlight == Cardinality(inflight) <= 1

\* the steps of the shutdown, as C17 states them
C17_ShutdownStep ==
    /\ Entering("disconnect") => listener # "started"
    /\ (op = "disconnect" /\ pc = "closePort") => kpc = "idle"
    /\ ("listener" \notin inflight /\ "listener" \in inflight')
          => ~(Ended("disconnect") \/ ~connected)

\* C17: the listener is stopped before disconnect() is entered; a command
\* that is in a key callback when the shutdown starts is over before
\* disconnect() closes the port; no write of a key callback is sent once
\* disconnect() has closed the port or the controller is not connected.
C17_ShutdownOrdering == [][C17_ShutdownStep]_vars

----------------------------------------------------------------------------
(* C18..C20: the unit converter *)


\* the converter was applied to an input of the joint
Converted(j) == conv.stage = "out" /\ conv.joint = j

\* C18: for every degrees value d in [-180, 180], converting d to raw units
\* and back gives a value that differs from d by at most one raw unit,
\* 360/4095 degrees.
C18_DegreeRoundTrip ==
    (Converted(1) /\ -180 * 4095 <= conv.p1 /\ conv.p1 <= 180 * 4095)
        => (conv.back - conv.p1 <= 360 /\ conv.p1 - conv.back <= 360)

\* an input just below a raw step: the round trip loses 359/360 of a raw unit
C18_Witness ==
    /\ Converted(1)
    /\ conv.p1 = 2240 * 360 + 359 - 180 * 4095
    /\ conv.raw = 2240
    /\ conv.p1 - conv.back = 359

\* C19 as stated: the raw value written is round((degrees + 180) * 4095 / 360)
\* clamped to [0, 4095] for a rotary joint and round(percent * 4095 / 100)
\* for the gripper, for every in-range input.
C19_WrittenIsRounded ==
    (conv.stage = "out" /\ conv.clamped = conv.p1)
        => conv.units1 =
              (IF conv.joint = 6 THEN RoundNearest(conv.p1, 100)
               ELSE Max(0, Min(4095, RoundNearest(conv.p1 + 180 * 4095, 360))))

\* C19, amended: the raw value written is the clamped position converted
\* with truncation, int((degrees + 180) * 4095 / 360) clamped to [0, 4095]
\* for a rotary joint and int(percent * 4095 / 100) for the gripper.
C19_WrittenIsTruncated ==
    conv.stage = "out"
        => LET lo == IF conv.joint = 6 THEN 0 ELSE -180 * 4095
               hi == IF conv.joint = 6 THEN 100 * 4095 ELSE 180 * 4095
               c  == IF conv.p1 < lo THEN lo ELSE IF conv.p1 > hi THEN hi ELSE conv.p1
               u  == IF conv.joint = 6 THEN c \div 100 ELSE (c + 180 * 4095) \div 360
           IN  /\ conv.clamped = c
               /\ conv.units1 = (IF u > 4095 THEN 4095 ELSE u)

\* an in-range input 181/360 of a raw unit above a step is written as the
\* step below, where rounding would give the step above
C19_Witness ==
    /\ Converted(1)
    /\ conv.p1 = 2104 * 360 + 181 - 180 * 4095
    /\ conv.units1 = 2104

\* C20: the percent conversion used for the gripper is monotonic: for all
\* p1 <= p2 in [0, 100], the raw value of p1 is at most the raw value of p2.
C20_PercentMonotonic ==
    (Converted(6) /\ 0 <= conv.p1 /\ conv.p1 <= conv.p2 /\ conv.p2 <= 100 * 4095)
        => conv.units1 <= conv.units2

\* two percent values one raw unit apart, converted to different raw values
C20_Witness ==
    /\ Converted(6)
    /\ conv.p1 = 204750
    /\ conv.p2 = 204850
    /\ conv.units1 = 2047
    /\ conv.units2 = 2048

----------------------------------------------------------------------------
(* C21: the order of connect() *)

\* the k-th transport call of a connect() in which nothing failed fatally
C21_Expected(k) ==
    IF k = 1 THEN [call |-> "openPort", id |-> 0, addr |-> 0, value |-> 0]
    ELSE IF k = 2 THEN [call |-> "setBaudRate", id |-> 0, addr |-> 0, value |-> 0]
    ELSE IF k <= 8 THEN [call |-> "ping", id |-> k - 2, addr |-> 0, value |-> 0]
    ELSE LET j == ((k - 9) \div 3) + 1
             phase == (k - 9) % 3
         IN  IF phase = 0 THEN [call |-> "write1", id |-> j, addr |-> 33, value |-> 0]
             ELSE IF phase = 1 THEN [call |-> "write1", id |-> j, addr |-> 40, value |-> 1]
             ELSE [call |-> "read2", id |-> j, addr |-> 56, value |-> 0]

\* connect() goes on after the call e: openPort, setBaudRate and ping must
\* succeed, a write may fail, a read must not throw
C21_GoesOn(e) ==
    /\ e.res # "raise"
    /\ e.call \in {"openPort", "setBaudRate", "ping"} => e.res = "ok"

\* the k-th call of the log is the k-th call of that order; a call of the
\* cleanup never is
C21_InOrder(k) ==
    /\ k <= 26
    /\ LET e == C21_Expected(k)
       IN  Is(log[k], e.call, e.id, e.addr, e.value)

\* the k-th call of the log is in its place: the next of the order while
\* connect() goes on, a call of disconnect()'s cleanup after that
C21_CallInPlace(k) ==
    IF k = 1 \/ (C21_InOrder(k - 1) /\ C21_GoesOn(log[k - 1]))
    THEN C21_InOrder(k)
    ELSE \/ Is(log[k], "write1", log[k].id, 40, 0)
         \/ log[k].call = "closePort"

\* C21: the transport calls of connect() come in a fixed order: openPort,
\* setBaudRate, the pings of IDs 1..6 ending at the first that fails, and only
\* after six good pings, joint by joint, the operating-mode write, the
\* torque-enable write and the present-position read; after a fatal failure
\* only the cleanup of disconnect() follows.  connect() returns, and a
\* controller that was not connected is marked connected, only after the
\* read of the sixth joint.  While connect() runs the call made last is in
\* its place; once connect() is over every call of it is.
C21_ConnectOrder ==
    op = "connect"
        => /\ Len(log) <= 33
           /\ Len(log) > 0 => C21_CallInPlace(Len(log))
           /\ pc = "idle" => \A k \in 1..Len(log) : C21_CallInPlace(k)
           /\ (pc = "mark_connected" \/ (pc = "idle" /\ result = "returned"))
                 => (Len(log) = 26 /\ \A m \in 1..26 : C21_GoesOn(log[m]))
           /\ (ncalls = 1 /\ pc # "idle") => ~connected
           /\ (pc = "idle" /\ result = "returned") => connected

\* a connect() that returned although the torque-enable write of joint 2
\* failed: all 26 calls were made in order
C21_Witness ==
    /\ Ended("connect")
    /\ result = "returned"
    /\ connected
    /\ Len(log) = 26
    /\ log[13].call = "write1"
    /\ log[13].id = 2
    /\ log[13].res = "fail"
    /\ log[26].call = "read2"

----------------------------------------------------------------------------
(* C22: the session ends *)

\* the termination key was handled while the main thread waits in its loop
C22_TerminationPressed ==
    /\ mainpc = "loop"
    /\ connected
    /\ key = "esc"
    /\ ~running
    /\ listener = "stopped"

\* main() is over: loop left, listener stopped, disconnect() returned
C22_SessionOver ==
    /\ mainpc = "ended"
    /\ Ended("disconnect")
    /\ listener = "stopped"
    /\ ~connected

\* C22 as stated: once the termination key is pressed in a running session,
\* the wait loop exits, the listener is stopped, disconnect() runs and the
\* controller ends not connected with the port closed.
C22_TerminationClosesPort ==
    C22_TerminationPressed ~> (C22_SessionOver /\ ~portOpen)

\* C22, amended: once the termination key is pressed in a running session,
\* the wait loop exits, the listener is stopped, disconnect() runs through
\* its six torque-disable writes and closePort(), and the controller ends
\* not connected; the port is closed unless closePort() itself raised.
C22_TerminationDisconnects ==
    C22_TerminationPressed
        ~> /\ C22_SessionOver
           /\ Len(log) = 7
           /\ log[7].call = "closePort"
           /\ log[7].res = "ok" => ~portOpen

\* a session ended by the termination key: not connected, port closed
C22_Witness ==
    /\ C22_SessionOver
    /\ key = "esc"
    /\ Len(log) = 7
    /\ log[7].res = "ok"
    /\ ~portOpen

----------------------------------------------------------------------------
(* C23: the values written as goals *)

\* the call e, if a 2-byte write, is a goal-position write of a raw value
C23_GoalInRange(e) ==
    e.call = "write2" => (e.addr = 42 /\ e.value \in 0..4095)

\* C23: every value move_motor writes to a goal-position register is an
\* integer in [0, 4095], for every joint, for requests far outside the joint
\* limits, and for moves made by key presses.
C23_GoalWritesInRange ==
    /\ \A k \in 1..Len(log) : C23_GoalInRange(log[k])
    /\ \A k \in 1..Len(klog) : C23_GoalInRange(klog[k])

\* the open-gripper key pressed with 180 cached for the gripper: the
\* request of 190 was written as raw 4095
C23_Witness ==
    /\ kpc = "idle"
    /\ key = "x"
    /\ kreq = 190 * 4095
    /\ Len(klog) = 1
    /\ klog[1].call = "write2"
    /\ klog[1].id = 6
    /\ klog[1].value = 4095

----------------------------------------------------------------------------
(* C24: torque after an emergency stop *)

\* what may switch a servo's torque on, and what a movement key does
C24_TorqueStep ==
    /\ (\E j \in Joints : torque[j] = 0 /\ torque'[j] = 1)
          => /\ kpc = "idle"
             /\ nkeys' = nkeys
             /\ \/ op = "connect" /\ pc = "write_torque"
                \/ op = "enable_torque" /\ pc = "enable_torque"
    /\ (kpc # "idle" \/ nkeys' # nkeys)
          => \A k \in 1..Len(klog') : ~(klog'[k].addr = 40 /\ klog'[k].value = 1)
    /\ kpc = "k_write_goal"
          => LET j == IF kname = "gripper" THEN 6 ELSE 1
                 lo == IF kname = "gripper" THEN 0 ELSE -180 * 4095
                 hi == IF kname = "gripper" THEN 100 * 4095 ELSE 180 * 4095
             IN  /\ Len(klog') = 1
                 /\ klog'[1].call = "write2"
                 /\ klog'[1].id = j
                 /\ klog'[1].addr = 42
                 /\ position'[j] = (IF kreq < lo THEN lo ELSE IF kreq > hi THEN hi ELSE kreq)
                 /\ torque' = torque

\* C24: no key event switches torque on: a servo's torque-enable register
\* goes from 0 to 1 only in a step of connect() or of enable_torque(), never
\* in a key callback, so after emergency_stop() torque stays off until one of
\* the two is called; a movement key handled meanwhile still issues its
\* goal-position write and still moves the cached position.
C24_TorqueStaysOff == [][C24_TorqueStep]_vars

\* after the emergency-stop key switched every servo off, a movement key was
\* handled: goal written, cache moved, torque still off everywhere
C24_Witness ==
    /\ kpc = "idle"
    /\ connected
    /\ Len(kcalls) = 2
    /\ kcalls[1].method = "emergency_stop"
    /\ kcalls[2].method = "move_motor"
    /\ kcalls[2].motor_name = "shoulder_pan"
    /\ Len(klog) = 1
    /\ klog[1].res = "ok"
    /\ position[1] = kcalls[2].position
    /\ \A j \in Joints : torque[j] = 0

----------------------------------------------------------------------------
(* C25: what a move touches *)

\* what the steps of a move_motor() that passes its checks may do
C25_MoveStep ==
    /\ (Entering("move_motor") /\ connected /\ motor_name' \in {"shoulder_pan", "gripper"})
          => /\ pc' = "write_goal"
             /\ log' = << >>
             /\ UNCHANGED << position, connected, torque, present, portOpen >>
    /\ (op = "move_motor" /\ pc = "write_goal")
          => LET j == IF motor_name = "gripper" THEN 6 ELSE 1
             IN  /\ motor_name \in {"shoulder_pan", "gripper"}
                 /\ log = << >>
                 /\ Len(log') = 1
                 /\ log'[1].call = "write2"
                 /\ log'[1].id = j
                 /\ log'[1].addr = 42
                 /\ \A m \in 1..6 : m # j => (position'[m] = position[m] /\ present'[m] = present[m])
                 /\ UNCHANGED << connected, torque, portOpen >>
                 /\ Ended("move_motor")'
                 /\ result' = "returned"

\* C25: a move_motor(name, v) on a connected controller and a known joint
\* issues exactly one transport call, a 2-byte write to the goal-position
\* register of that joint's bus id, and leaves the cached position of the
\* other five joints and the connection state as they were.
C25_MoveTouchesOneJoint == [][C25_MoveStep]_vars

\* a move of the gripper: one write to bus id 6, joint 1 still at the
\* position connect() read for it
C25_Witness ==
    /\ Ended("move_motor")
    /\ connected
    /\ motor_name = "gripper"
    /\ req = 5 * 4095
    /\ Len(log) = 1
    /\ log[1].id = 6
    /\ log[1].res = "ok"
    /\ position[6] = 5 * 4095
    /\ position[1] = 180 * 4095
    /\ present[6] = 204

----------------------------------------------------------------------------
(* C26: the cache and the joint limits *)

\* C26: in every reachable state the cached position of every joint lies
\* within the joint's limits: [0, 100] for the gripper and [-180, 180] for
\* the other five, with servos that report raw values in [0, 4095].
C26_CacheWithinLimits ==
    \A j \in 1..6 :
        LET lo == IF j = 6 THEN 0 ELSE -180 * 4095
            hi == IF j = 6 THEN 100 * 4095 ELSE 180 * 4095
        IN  lo <= position[j] /\ position[j] <= hi

====
